---- MODULE Spec2Model ----
(***************************************************************************)
(* Model of gcs-bucket.py: a command-line run that parses a cutoff date,   *)
(* builds a storage client, lists the project's buckets, scans each bucket *)
(* in a ThreadPoolExecutor, collects the unmodified ones and writes them   *)
(* to a workbook.                                                          *)
(***************************************************************************)
EXTENDS Integers, Sequences, FiniteSets, TLC

(***************************************************************************)
(* Bounds of the model.                                                    *)
(***************************************************************************)
\* buckets of the project in the concurrent specification (Spec)
NumBuckets == 2
\* objects of the one bucket in the single-bucket specification (SpecScan)
MaxObjects == 2
\* --max_workers ranges over 1..MaxWorkers
MaxWorkers == 2

\* Python's None where a string or a tzinfo is expected; an optional datetime or
\* dict is a sequence of length at most one, <<>> standing for None
None == "None"

(***************************************************************************)
(* datetime values: the fields of datetime.datetime, compared field by     *)
(* field as Python compares naive datetimes.                               *)
(***************************************************************************)
DateTime(y, mo, d, h, mi, s, us, tz) ==
    [year |-> y, month |-> mo, day |-> d, hour |-> h, minute |-> mi,
     second |-> s, microsecond |-> us, tzinfo |-> tz]

\* datetime.replace(tzinfo=None): the wall-clock fields are kept, the zone dropped
ReplaceTzinfoNone(dt) == [dt EXCEPT !.tzinfo = None]

DtFields(dt) ==
    <<dt.year, dt.month, dt.day, dt.hour, dt.minute, dt.second, dt.microsecond>>

RECURSIVE LexGreater(_, _)
LexGreater(a, b) ==
    IF a = <<>> THEN FALSE
    ELSE IF Head(a) # Head(b) THEN Head(a) > Head(b)
    ELSE LexGreater(Tail(a), Tail(b))

IsAfterOrEqual(a, b) == ~LexGreater(DtFields(b), DtFields(a))

\* a > b on two naive datetimes (the `>` of lines 42, 45 and 51)
IsAfter(a, b) == LexGreater(DtFields(a), DtFields(b))

Pad2(n) == IF n < 10 THEN "0" \o ToString(n) ELSE ToString(n)

\* dt.strftime('%Y-%m-%d %H:%M:%S'): the year is rendered without padding
\* (a year below 1000 has fewer than four digits), the other fields on two
\* digits; microseconds and zone are not rendered
Strftime(dt) ==
    ToString(dt.year) \o "-" \o Pad2(dt.month) \o "-" \o Pad2(dt.day) \o " " \o
    Pad2(dt.hour) \o ":" \o Pad2(dt.minute) \o ":" \o Pad2(dt.second)

(***************************************************************************)
(* datetime.datetime.strptime(s, "%Y-%m-%d") on a string given as the      *)
(* sequence of its characters' code points (48..57 are "0".."9", 45 is     *)
(* "-", 32 the space): four decimal digits, "-", a month token, "-", a day *)
(* token, nothing after it, and the day must exist in that month.          *)
(***************************************************************************)
\* the code points of the characters of value 0 among the decimal digits (\d
\* of a str pattern matches every Unicode decimal digit, and int() converts
\* them); each is followed by its script's digits 1 to 9
DecimalZeros ==
    { 48, 1632, 1776, 1984, 2406, 2534, 2662, 2790, 2918,
      3046, 3174, 3302, 3430, 3558, 3664, 3792, 3872, 4160,
      4240, 6112, 6160, 6470, 6608, 6784, 6800, 6992, 7088,
      7232, 7248, 42528, 43216, 43264, 43472, 43504, 43600, 44016,
      65296, 66720, 68912, 69734, 69872, 69942, 70096, 70384, 70736,
      70864, 71248, 71360, 71472, 71904, 72016, 72784, 73040, 73120,
      92768, 92864, 93008, 120782, 120792, 120802, 120812, 120822, 123200,
      123632, 125264, 130032 }

\* \d
IsDecimal(c) == \E z \in DecimalZeros : c \in z..(z + 9)

\* [0-9]
IsAsciiDigit(c) == c \in 48..57

DigitVal(c) == c - (CHOOSE z \in DecimalZeros : c \in z..(z + 9))

\* int() of a string of decimal digits
RECURSIVE DigitsVal(_)
DigitsVal(cs) ==
    IF cs = <<>> THEN 0
    ELSE DigitsVal(SubSeq(cs, 1, Len(cs) - 1)) * 10 + DigitVal(cs[Len(cs)])

\* %Y : \d\d\d\d
IsYearToken(cs) == Len(cs) = 4 /\ \A i \in 1..4 : IsDecimal(cs[i])

\* positions of "-" in the string
DashPositions(cs) == {i \in 1..Len(cs) : cs[i] = 45}

\* %m : 1[0-2] | 0[1-9] | [1-9]
IsMonthToken(cs) ==
    /\ Len(cs) \in {1, 2}
    /\ \A i \in 1..Len(cs) : IsAsciiDigit(cs[i])
    /\ DigitsVal(cs) \in 1..12

\* %d : 3[0-1] | [1-2]\d | 0[1-9] | [1-9] | " "[1-9]
IsDayToken(cs) ==
    \/ /\ Len(cs) = 2
       /\ cs[1] = 51
       /\ cs[2] \in {48, 49}
    \/ /\ Len(cs) = 2
       /\ cs[1] \in {49, 50}
       /\ IsDecimal(cs[2])
    \/ /\ Len(cs) = 2
       /\ cs[1] \in {48, 32}
       /\ cs[2] \in 49..57
    \/ /\ Len(cs) = 1
       /\ cs[1] \in 49..57

DayTokenVal(cs) == IF cs[1] = 32 THEN DigitVal(cs[2]) ELSE DigitsVal(cs)

IsLeap(y) == (y % 4 = 0) /\ ((y % 100 # 0) \/ (y % 400 = 0))

DaysInMonth(y, m) ==
    IF m = 2 THEN (IF IsLeap(y) THEN 29 ELSE 28)
    ELSE IF m \in {4, 6, 9, 11} THEN 30 ELSE 31

\* TRUE when strptime returns, FALSE when it raises ValueError
StrptimeMatches(cs) ==
    /\ Len(cs) >= 8
    /\ IsYearToken(SubSeq(cs, 1, 4))
    /\ cs[5] = 45
    /\ Cardinality(DashPositions(cs)) = 2
    /\ LET p  == CHOOSE i \in DashPositions(cs) : i > 5
           ms == SubSeq(cs, 6, p - 1)
           ds == SubSeq(cs, p + 1, Len(cs))
       IN  /\ ms # <<>> /\ ds # <<>>
           /\ IsMonthToken(ms)
           /\ IsDayToken(ds)
           /\ DigitsVal(SubSeq(cs, 1, 4)) >= 1
           /\ DayTokenVal(ds) <= DaysInMonth(DigitsVal(SubSeq(cs, 1, 4)), DigitsVal(ms))

\* the naive datetime strptime returns (midnight of the date)
Strptime(cs) ==
    LET p  == CHOOSE i \in DashPositions(cs) : i > 5
        ms == SubSeq(cs, 6, p - 1)
        ds == SubSeq(cs, p + 1, Len(cs))
    IN  DateTime(DigitsVal(SubSeq(cs, 1, 4)), DigitsVal(ms), DayTokenVal(ds),
                 0, 0, 0, 0, None)

(***************************************************************************)
(* The inputs: command lines, the credential file, the project's buckets.  *)
(***************************************************************************)
\* a well-formed cutoff argument, "2024-01-02"
GoodDate == <<50, 48, 50, 52, 45, 48, 49, 45, 48, 50>>

\* the same date with the year in full-width digits and the day as " 2"
WideDate == <<65298, 65296, 65298, 65300, 45, 49, 45, 32, 50>>

\* malformed cutoff arguments: "2024-13-01", "2024-02-30", "02/01/2024",
\* "2024-01-02x", and "2024-01-02" with the month's 0 a full-width digit
BadDates ==
    { <<50, 48, 50, 52, 45, 49, 51, 45, 48, 49>>,
      <<50, 48, 50, 52, 45, 48, 50, 45, 51, 48>>,
      <<48, 50, 47, 48, 49, 47, 50, 48, 50, 52>>,
      <<50, 48, 50, 52, 45, 48, 49, 45, 48, 50, 120>>,
      <<50, 48, 50, 52, 45, 65296, 49, 45, 48, 50>> }

\* timestamps just before, exactly at and just after midnight of 2024-01-02
TBefore == DateTime(2024, 1, 1, 23, 59, 59, 999999, "UTC")
TAt     == DateTime(2024, 1, 2, 0, 0, 0, 0, "UTC")
TAfter  == DateTime(2024, 1, 2, 0, 0, 0, 1, "UTC")
Times   == {TBefore, TAt, TAfter}

NoFault == [op |-> "none", at |-> 0]

Bucket(n, c, u, bl, f) ==
    [name |-> n, time_created |-> c, updated |-> u, location |-> "US",
     storage_class |-> "STANDARD", blobs |-> bl, fault |-> f]

BucketName(i) == "bucket-" \o ToString(i)

RECURSIVE SeqsUpTo(_, _)
SeqsUpTo(S, n) ==
    IF n = 0 THEN {<<>>}
    ELSE LET shorter == SeqsUpTo(S, n - 1)
         IN  shorter \cup {Append(q, e) : q \in shorter, e \in S}

\* the places a bucket's scan can fail: nowhere, in get_bucket, or in the
\* object listing after it has yielded `at` objects
FaultsOf(bl) ==
    {NoFault, [op |-> "get_bucket", at |-> 0]}
        \cup {[op |-> "list_blobs", at |-> k] : k \in 0..Len(bl)}

\* every bucket with at most MaxObjects objects
AllBuckets(n) ==
    UNION { {Bucket(n, c, u, bl, f) : c \in Times, u \in {<<>>} \cup {<<t>> : t \in Times},
                                      f \in FaultsOf(bl)}
            : bl \in SeqsUpTo(Times, MaxObjects) }

\* the buckets of the concurrent specification, one per way a scan can end:
\* returned without objects, returned at the boundary, excluded at creation,
\* excluded at the metadata update, excluded by its second object, failed in
\* get_bucket, failed in the object listing
SampleBuckets(n) ==
    { Bucket(n, TBefore, <<>>, <<>>, NoFault),
      Bucket(n, TAt, <<TAt>>, <<TAt>>, NoFault),
      Bucket(n, TAfter, <<>>, <<>>, NoFault),
      Bucket(n, TBefore, <<TAfter>>, <<>>, NoFault),
      Bucket(n, TAt, <<TBefore>>, <<TBefore, TAfter>>, NoFault),
      Bucket(n, TBefore, <<>>, <<>>, [op |-> "get_bucket", at |-> 0]),
      Bucket(n, TBefore, <<TAt>>, <<TBefore>>, [op |-> "list_blobs", at |-> 1]) }

Log(level, msg, arg) == [level |-> level, msg |-> msg, arg |-> arg]

VARIABLES
    args,               \* the parsed command line
    adc_file,           \* ~/.config/gcloud/application_default_credentials.json
    list_fault,         \* TRUE when the provider fails to list the buckets
    gcs,                \* the project's buckets, in listing order
    pc,                 \* main's position
    environ,            \* os.environ, the variables this process has set
    client,             \* TRUE once storage.Client has been constructed
    cutoff_date,        \* main's cutoff_date, <<>> until parsed
    exc,                \* the exception propagating in main, None if none
    buckets,            \* get_unmodified_buckets' list of listed buckets
    submitted,          \* how many of them have had their work item put on the
                        \* executor's queue
    fut,                \* per bucket, the state of its future
    line,               \* per bucket, the line of check_bucket_modification its
                        \* worker thread executes next, 0 outside the call
    it,                 \* per bucket, how many objects the blob iterator has yielded
    ret,                \* per bucket, what check_bucket_modification returned
    queue,              \* the executor's work queue
    threads,            \* how many worker threads the executor's _threads holds
    started,            \* how many worker threads have been started
    taken,              \* the buckets whose work item a worker thread has got
                        \* from the queue and has not yet marked as running
    idle_sem,           \* the executor's idle semaphore
    releasing,          \* the buckets whose worker thread has completed the future
                        \* and has not yet released the idle semaphore
    collected,          \* the futures as_completed has yielded
    unmodified_buckets, \* the result list
    log,                \* the log records emitted
    file,               \* the workbook at args.output, <<>> when there is none
    calls,              \* per bucket, the provider requests made for it
    scan_exc,           \* the buckets whose scan raised into the except clause
    list_calls,         \* list_buckets requests made
    write_calls,        \* write_to_excel invocations
    exit_status         \* "running", then "success" or "uncaught"

vars == <<args, adc_file, list_fault, gcs, pc, environ, client, cutoff_date, exc,
          buckets, submitted, fut, line, it, ret, queue, threads, started, taken,
          idle_sem, releasing, collected, unmodified_buckets, log, file, calls, scan_exc, list_calls,
          write_calls, exit_status>>

inputs == <<args, adc_file, list_fault, gcs>>

Ids == 1..Len(gcs)

InitRun ==
    /\ adc_file \in {"valid", "missing", "malformed"}
    /\ list_fault \in BOOLEAN
    /\ pc = "strptime"
    /\ environ = {}
    /\ client = FALSE
    /\ cutoff_date = <<>>
    /\ exc = None
    /\ buckets = <<>>
    /\ submitted = 0
    /\ fut = [i \in Ids |-> "none"]
    /\ line = [i \in Ids |-> 0]
    /\ it = [i \in Ids |-> 0]
    /\ ret = [i \in Ids |-> <<>>]
    /\ queue = <<>>
    /\ threads = 0
    /\ started = 0
    /\ taken = {}
    /\ idle_sem = 0
    /\ releasing = {}
    /\ collected = {}
    /\ unmodified_buckets = <<>>
    /\ log = {}
    /\ file = <<>>
    /\ calls = [i \in Ids |-> <<>>]
    /\ scan_exc = {}
    /\ list_calls = 0
    /\ write_calls = 0
    /\ exit_status = "running"

Args(d, w) ==
    [project_id |-> "my-project", cutoff_date |-> d,
     output |-> "unmodified_buckets.xlsx", max_workers |-> w]

\* a project of NumBuckets buckets, scanned by 1..MaxWorkers workers
Init ==
    /\ args \in {Args(d, w) : d \in {GoodDate} \cup BadDates, w \in 1..MaxWorkers}
    /\ gcs \in {g \in [1..NumBuckets -> UNION {SampleBuckets(BucketName(i)) : i \in 1..NumBuckets}] :
                  \A i \in 1..NumBuckets : g[i].name = BucketName(i)}
    /\ InitRun

\* a project of one bucket, any bucket of at most MaxObjects objects
InitScan ==
    /\ args \in {Args(d, w) : d \in {GoodDate, WideDate} \cup BadDates, w \in 1..MaxWorkers}
    /\ gcs \in {<<b>> : b \in AllBuckets(BucketName(1))}
    /\ InitRun

(***************************************************************************)
(* main, up to the scan.                                                   *)
(***************************************************************************)
AfterStrptimeAlways(matched) == "get_storage_client"

\* where main goes after the try of lines 124-128
AfterStrptime(matched) == IF matched THEN "get_storage_client" ELSE "done"

MainStrptime ==
    /\ pc = "strptime"
    /\ LET matched == StrptimeMatches(args.cutoff_date)
           next    == AfterStrptime(matched)
       IN  /\ pc' = next
           /\ cutoff_date' = IF matched THEN <<Strptime(args.cutoff_date)>> ELSE <<>>
           /\ log' = IF matched
                     THEN log \cup {Log("INFO", "Searching for unmodified buckets", args.project_id)}
                     ELSE log \cup {Log("ERROR", "Invalid date format. Please use YYYY-MM-DD.", "")}
           /\ exit_status' = IF next = "done" THEN "success" ELSE exit_status
    /\ UNCHANGED <<inputs, line, started, taken, releasing, environ, client, exc, buckets, submitted, fut, it, ret, queue,
                   threads, idle_sem, collected, unmodified_buckets, file, calls,
                   scan_exc, list_calls, write_calls>>

\* what Credentials.from_authorized_user_file does with the credential file
CredentialError(f) ==
    CASE f = "valid" -> None
      [] f = "missing" -> "FileNotFoundError"
      [] f = "malformed" -> "ValueError"

GetStorageClientSwallow ==
    /\ pc = "get_storage_client"
    /\ environ' = environ \cup {<<"GOOGLE_CLOUD_PROJECT", args.project_id>>}
    /\ LET e == CredentialError(adc_file)
       IN  /\ client' = (e = None)
           /\ log' = IF e \in {"DefaultCredentialsError", "FileNotFoundError"}
                     THEN log \cup {Log("ERROR", "Unable to find local credentials", "")}
                     ELSE log
           /\ exc' = None
           /\ pc' = "list_buckets"
    /\ UNCHANGED <<inputs, line, started, taken, releasing, cutoff_date, buckets, submitted, fut, it, ret, queue, threads,
                   idle_sem, collected, unmodified_buckets, file, calls, scan_exc,
                   list_calls, write_calls, exit_status>>

\* get_storage_client, called at line 133: the environment variable is set first;
\* an error is logged if it is one of the two the except clause names, and raised
GetStorageClient ==
    /\ pc = "get_storage_client"
    /\ environ' = environ \cup {<<"GOOGLE_CLOUD_PROJECT", args.project_id>>}
    /\ LET e == CredentialError(adc_file)
       IN  /\ client' = (e = None)
           /\ log' = IF e \in {"DefaultCredentialsError", "FileNotFoundError"}
                     THEN log \cup {Log("ERROR", "Unable to find local credentials", "")}
                     ELSE log
           /\ exc' = e
           /\ pc' = IF e = None THEN "list_buckets" ELSE "main_except"
    /\ UNCHANGED <<inputs, line, started, taken, releasing, cutoff_date, buckets, submitted, fut, it, ret, queue, threads,
                   idle_sem, collected, unmodified_buckets, file, calls, scan_exc,
                   list_calls, write_calls, exit_status>>

\* the except clause of lines 141-142: the error is logged and main returns
MainExcept ==
    /\ pc = "main_except"
    /\ log' = log \cup {Log("ERROR", "An error occurred", exc)}
    /\ exc' = None
    /\ pc' = "done"
    /\ exit_status' = "success"
    /\ UNCHANGED <<inputs, line, started, taken, releasing, environ, client, cutoff_date, buckets, submitted, fut, it, ret,
                   queue, threads, idle_sem, collected, unmodified_buckets, file, calls,
                   scan_exc, list_calls, write_calls>>

(***************************************************************************)
(* get_unmodified_buckets: the listing and the executor.                   *)
(***************************************************************************)
OnListingErrorSilent(l) == l

\* the except clause of lines 78-79
OnListingError(l) == l \cup {Log("ERROR", "Error in get_unmodified_buckets", "")}

\* line 69: the whole listing is materialized, or the scan is abandoned
ListBuckets ==
    /\ pc = "list_buckets"
    /\ list_calls' = list_calls + 1
    /\ IF list_fault
       THEN /\ log' = OnListingError(log)
            /\ buckets' = buckets
            /\ pc' = "report"
       ELSE /\ log' = log
            /\ buckets' = [i \in Ids |-> i]
            /\ pc' = IF Ids = {} THEN "as_completed" ELSE "submit"
    /\ UNCHANGED <<inputs, line, started, taken, releasing, environ, client, cutoff_date, exc, submitted, fut, it, ret,
                   queue, threads, idle_sem, collected, unmodified_buckets, file, calls,
                   scan_exc, write_calls, exit_status>>

\* the buckets whose work item a worker thread is running
Running == {i \in Ids : fut[i] \in {"running", "iterating", "except"}}

\* the buckets whose worker thread has not yet gone back to the queue
Busy == taken \cup Running \cup releasing

\* where the coordinator goes when executor.submit returns: to the next
\* bucket of the list, or to the collection loop
AfterSubmit == IF submitted = Len(buckets) THEN "as_completed" ELSE "submit"

\* line 71, executor.submit for the next bucket of the list, up to
\* _work_queue.put: the future is created and its work item queued
Submit ==
    /\ pc = "submit"
    /\ submitted < Len(buckets)
    /\ LET i == buckets[submitted + 1]
       IN  /\ fut' = [fut EXCEPT ![i] = "pending"]
           /\ queue' = Append(queue, i)
    /\ submitted' = submitted + 1
    /\ pc' = "adjust"
    /\ UNCHANGED <<inputs, line, started, taken, releasing, environ, client, cutoff_date, exc, buckets,
                   it, ret, threads, idle_sem, collected, unmodified_buckets, log, file,
                   calls, scan_exc, list_calls, write_calls, exit_status>>

\* ThreadPoolExecutor._adjust_thread_count, _idle_semaphore.acquire(timeout=0):
\* an idle worker is accounted for and submit returns, or none is
AdjustThreadCount ==
    /\ pc = "adjust"
    /\ IF idle_sem > 0
       THEN /\ idle_sem' = idle_sem - 1
            /\ pc' = AfterSubmit
       ELSE /\ idle_sem' = idle_sem
            /\ pc' = "spawn"
    /\ UNCHANGED <<inputs, line, started, taken, releasing, environ, client, cutoff_date, exc, buckets,
                   submitted, fut, it, ret, queue, threads, collected, unmodified_buckets,
                   log, file, calls, scan_exc, list_calls, write_calls, exit_status>>

ShouldSpawnUnbounded(n, max_workers) == TRUE

\* ThreadPoolExecutor._adjust_thread_count, once no worker was found idle: a
\* thread is started when _threads holds fewer than max_workers
ShouldSpawn(n, max_workers) == n < max_workers

\* ThreadPoolExecutor._adjust_thread_count, t.start(): the new thread runs
\* from here on; _threads does not hold it yet
StartThread ==
    /\ pc = "spawn"
    /\ IF ShouldSpawn(threads, args.max_workers)
       THEN /\ started' = started + 1
            /\ pc' = "add_thread"
       ELSE /\ started' = started
            /\ pc' = AfterSubmit
    /\ UNCHANGED <<inputs, line, taken, releasing, environ, client, cutoff_date, exc, buckets,
                   submitted, fut, it, ret, queue, threads, idle_sem, collected,
                   unmodified_buckets, log, file, calls, scan_exc, list_calls,
                   write_calls, exit_status>>

\* ThreadPoolExecutor._adjust_thread_count, _threads.add(t); submit returns
AddThread ==
    /\ pc = "add_thread"
    /\ threads' = threads + 1
    /\ pc' = AfterSubmit
    /\ UNCHANGED <<inputs, line, started, taken, releasing, environ, client, cutoff_date, exc,
                   buckets, submitted, fut, it, ret, queue, idle_sem, collected,
                   unmodified_buckets, log, file, calls, scan_exc, list_calls,
                   write_calls, exit_status>>

\* _worker, work_queue.get: a started thread that holds no work item takes the
\* head of the queue; the item's future is still pending
WorkerTake ==
    /\ queue # <<>>
    /\ Cardinality(Busy) < started
    /\ taken' = taken \cup {Head(queue)}
    /\ queue' = Tail(queue)
    /\ UNCHANGED <<inputs, line, started, releasing, pc, environ, client, cutoff_date, exc, buckets,
                   submitted, fut, it, ret, threads, idle_sem, collected,
                   unmodified_buckets, log, file, calls, scan_exc, list_calls,
                   write_calls, exit_status>>

\* _WorkItem.run, future.set_running_or_notify_cancel: the future of the work
\* item the thread holds becomes running, and check_bucket_modification is
\* entered
SetRunning(i) ==
    /\ i \in taken
    /\ taken' = taken \ {i}
    /\ fut' = [fut EXCEPT ![i] = "running"]
    /\ line' = [line EXCEPT ![i] = 40]
    /\ UNCHANGED <<inputs, started, releasing, pc, environ, client, cutoff_date, exc, buckets,
                   submitted, it, ret, queue, threads, idle_sem, collected,
                   unmodified_buckets, log, file, calls, scan_exc, list_calls,
                   write_calls, exit_status>>

(***************************************************************************)
(* check_bucket_modification, run by a worker thread for bucket i, one     *)
(* step per line; the future's state "running" becomes "iterating" once    *)
(* list_blobs has been requested and "except" once the except clause has   *)
(* logged.                                                                 *)
(***************************************************************************)
\* what no step of a scan changes
coordinator ==
    <<inputs, pc, environ, client, cutoff_date, exc, buckets, submitted, queue, threads,
      started, taken, idle_sem, collected, unmodified_buckets, file, list_calls,
      write_calls, exit_status>>

\* line 40: the get_bucket request is answered, or raises into the except clause
GetBucket(i) ==
    /\ line[i] = 40
    /\ calls' = [calls EXCEPT ![i] = Append(@, "get_bucket")]
    /\ line' = [line EXCEPT ![i] = IF gcs[i].fault.op = "get_bucket" THEN 62 ELSE 42]
    /\ UNCHANGED <<coordinator, fut, it, ret, releasing, log, scan_exc>>

CreatedAfterNever(b, cutoff) == FALSE

\* the condition of line 42
CreatedAfter(b, cutoff) == IsAfter(ReplaceTzinfoNone(b.time_created), cutoff)

\* line 42: the creation check
CheckCreated(i) ==
    /\ line[i] = 42
    /\ line' = [line EXCEPT ![i] = IF CreatedAfter(gcs[i], cutoff_date[1]) THEN 43 ELSE 45]
    /\ UNCHANGED <<coordinator, fut, it, ret, releasing, log, calls, scan_exc>>

\* the condition of line 45
UpdatedAfter(b, cutoff) ==
    b.updated # <<>> /\ IsAfter(ReplaceTzinfoNone(b.updated[1]), cutoff)

\* line 45: the metadata-update check
CheckUpdated(i) ==
    /\ line[i] = 45
    /\ line' = [line EXCEPT ![i] = IF UpdatedAfter(gcs[i], cutoff_date[1]) THEN 46 ELSE 49]
    /\ UNCHANGED <<coordinator, fut, it, ret, releasing, log, calls, scan_exc>>

\* line 49: the list_blobs request
ListBlobs(i) ==
    /\ line[i] = 49
    /\ calls' = [calls EXCEPT ![i] = Append(@, "list_blobs")]
    /\ fut' = [fut EXCEPT ![i] = "iterating"]
    /\ line' = [line EXCEPT ![i] = 50]
    /\ UNCHANGED <<coordinator, it, ret, releasing, log, scan_exc>>

\* line 50: the blob iterator is asked for the next object: the listing raises
\* into the except clause, or is exhausted, or yields an object
NextBlob(i) ==
    /\ line[i] = 50
    /\ LET b == gcs[i]
       IN  IF b.fault.op = "list_blobs" /\ b.fault.at = it[i]
           THEN /\ line' = [line EXCEPT ![i] = 62]
                /\ UNCHANGED <<it, calls>>
           ELSE IF it[i] = Len(b.blobs)
           THEN /\ line' = [line EXCEPT ![i] = 54]
                /\ UNCHANGED <<it, calls>>
           ELSE /\ it' = [it EXCEPT ![i] = @ + 1]
                /\ calls' = [calls EXCEPT ![i] = Append(@, "blob")]
                /\ line' = [line EXCEPT ![i] = 51]
    /\ UNCHANGED <<coordinator, fut, ret, releasing, log, scan_exc>>

\* line 51: the check of the object the iterator yielded last
CheckBlob(i) ==
    /\ line[i] = 51
    /\ line' = [line EXCEPT ![i] =
                   IF IsAfter(ReplaceTzinfoNone(gcs[i].blobs[it[i]]), cutoff_date[1])
                   THEN 52 ELSE 50]
    /\ UNCHANGED <<coordinator, fut, it, ret, releasing, log, calls, scan_exc>>

\* lines 54-60: the dict returned for an unmodified bucket
ScanResult(b) ==
    [name |-> b.name,
     created |-> b.time_created,
     last_modified |-> IF b.updated # <<>> THEN b.updated[1] ELSE b.time_created,
     location |-> b.location,
     storage_class |-> b.storage_class]

\* check_bucket_modification returns r (<<>> for None) to the work item
Return(i, r) ==
    /\ ret' = [ret EXCEPT ![i] = r]
    /\ line' = [line EXCEPT ![i] = 0]

\* lines 43, 46 and 52: return None
ReturnNone(i) ==
    /\ line[i] \in {43, 46, 52}
    /\ Return(i, <<>>)
    /\ UNCHANGED <<coordinator, fut, it, releasing, log, calls, scan_exc>>

\* line 54: return the dict
ReturnResult(i) ==
    /\ line[i] = 54
    /\ Return(i, <<ScanResult(gcs[i])>>)
    /\ UNCHANGED <<coordinator, fut, it, releasing, log, calls, scan_exc>>

OnScanErrorSilent(l, name) == l

\* the logging.error of line 62
OnScanError(l, name) == l \cup {Log("ERROR", "Error processing bucket", name)}

\* lines 61-62: the except clause logs the error
LogError(i) ==
    /\ line[i] = 62
    /\ fut' = [fut EXCEPT ![i] = "except"]
    /\ log' = OnScanError(log, gcs[i].name)
    /\ scan_exc' = scan_exc \cup {i}
    /\ line' = [line EXCEPT ![i] = 63]
    /\ UNCHANGED <<coordinator, it, ret, releasing, calls>>

\* line 63: the except clause returns None
ExceptReturn(i) ==
    /\ line[i] = 63
    /\ Return(i, <<>>)
    /\ UNCHANGED <<coordinator, fut, it, releasing, log, calls, scan_exc>>

\* _WorkItem.run, future.set_result: the future is finished with the value
\* returned; the worker thread has yet to release the idle semaphore
SetResult(i) ==
    /\ i \in Running
    /\ line[i] = 0
    /\ fut' = [fut EXCEPT ![i] = "finished"]
    /\ releasing' = releasing \cup {i}
    /\ UNCHANGED <<coordinator, line, it, ret, log, calls, scan_exc>>

\* the worker thread that ran bucket i's scan releases the idle semaphore and
\* goes back to the queue
WorkerRelease(i) ==
    /\ i \in releasing
    /\ releasing' = releasing \ {i}
    /\ idle_sem' = idle_sem + 1
    /\ UNCHANGED <<inputs, line, started, taken, pc, environ, client, cutoff_date, exc, buckets, submitted, fut,
                   it, ret, queue, threads, collected, unmodified_buckets, log, file,
                   calls, scan_exc, list_calls, write_calls, exit_status>>

(***************************************************************************)
(* The collection loop and the report.                                     *)
(***************************************************************************)
CollectResultLast(list, result) == IF result # <<>> THEN result ELSE list

\* lines 75-77: a non-None result is appended to the list
CollectResult(list, result) == IF result # <<>> THEN Append(list, result[1]) ELSE list

\* line 74: as_completed yields a finished future it has not yielded yet
Collect(i) ==
    /\ pc = "as_completed"
    /\ fut[i] = "finished"
    /\ i \notin collected
    /\ collected' = collected \cup {i}
    /\ unmodified_buckets' = CollectResult(unmodified_buckets, ret[i])
    /\ UNCHANGED <<inputs, line, started, taken, releasing, pc, environ, client, cutoff_date, exc, buckets, submitted, fut,
                   it, ret, queue, threads, idle_sem, log, file, calls, scan_exc,
                   list_calls, write_calls, exit_status>>

LoopDoneEarly(done, n) == done # {}

\* as_completed is exhausted when every submitted future has been yielded
LoopDone(done, n) == Cardinality(done) = n

\* lines 70 and 81: the loop ends, the executor's shutdown joins the worker
\* threads, the list is returned
ReturnBuckets ==
    /\ pc = "as_completed"
    /\ LoopDone(collected, submitted)
    /\ queue = <<>>
    /\ Busy = {}
    /\ pc' = "report"
    /\ UNCHANGED <<inputs, line, started, taken, releasing, environ, client, cutoff_date, exc, buckets, submitted, fut, it,
                   ret, queue, threads, idle_sem, collected, unmodified_buckets, log,
                   file, calls, scan_exc, list_calls, write_calls, exit_status>>

Headers == <<"Bucket Name", "Created Date", "Last Modified Date", "Location", "Storage Class">>

\* lines 97-101: the row of one result
SheetRow(r) ==
    <<r.name, Strftime(r.created), Strftime(r.last_modified), r.location, r.storage_class>>

SheetRowsNoHeader(results) == [k \in 1..Len(results) |-> SheetRow(results[k])]

\* lines 90-101: the header in row 1, the results from row 2 on
SheetRows(results) == <<Headers>> \o [k \in 1..Len(results) |-> SheetRow(results[k])]

Max(S) == CHOOSE m \in S : \A n \in S : m >= n

\* lines 104-114: each column is as wide as its longest cell, plus 2
ColumnWidths(rows) ==
    [c \in 1..Len(Headers) |-> Max({0} \cup {Len(rows[r][c]) : r \in 1..Len(rows)}) + 2]

\* lines 85-114: the workbook write_to_excel builds
Workbook(results) ==
    [title |-> "Unmodified Buckets",
     bold |-> {<<1, c>> : c \in 1..Len(Headers)},
     rows |-> SheetRows(results),
     widths |-> ColumnWidths(SheetRows(results))]

\* lines 136-140, with write_to_excel (lines 83-119): a non-empty list is
\* written, and wb.save either replaces the file or fails and is logged
Report ==
    /\ pc = "report"
    /\ IF unmodified_buckets # <<>>
       THEN /\ write_calls' = write_calls + 1
            /\ \E saved \in BOOLEAN :
                 IF saved
                 THEN /\ file' = <<Workbook(unmodified_buckets)>>
                      /\ log' = log \cup {Log("INFO", "Results written to", args.output),
                                          Log("INFO", "Found unmodified buckets",
                                              ToString(Len(unmodified_buckets)))}
                 ELSE /\ file' = file
                      /\ log' = log \cup {Log("ERROR", "Error writing to Excel", ""),
                                          Log("INFO", "Found unmodified buckets",
                                              ToString(Len(unmodified_buckets)))}
       ELSE /\ write_calls' = write_calls
            /\ file' = file
            /\ log' = log \cup {Log("INFO", "No unmodified buckets found", "")}
    /\ pc' = "done"
    /\ exit_status' = "success"
    /\ UNCHANGED <<inputs, line, started, taken, releasing, environ, client, cutoff_date, exc, buckets, submitted, fut, it,
                   ret, queue, threads, idle_sem, collected, unmodified_buckets, calls,
                   scan_exc, list_calls>>

Next ==
    \/ MainStrptime
    \/ GetStorageClient
    \/ MainExcept
    \/ ListBuckets
    \/ Submit
    \/ AdjustThreadCount
    \/ StartThread
    \/ AddThread
    \/ WorkerTake
    \/ \E i \in Ids : SetRunning(i)
    \/ \E i \in Ids : GetBucket(i)
    \/ \E i \in Ids : CheckCreated(i)
    \/ \E i \in Ids : CheckUpdated(i)
    \/ \E i \in Ids : ListBlobs(i)
    \/ \E i \in Ids : NextBlob(i)
    \/ \E i \in Ids : CheckBlob(i)
    \/ \E i \in Ids : ReturnNone(i)
    \/ \E i \in Ids : ReturnResult(i)
    \/ \E i \in Ids : LogError(i)
    \/ \E i \in Ids : ExceptReturn(i)
    \/ \E i \in Ids : SetResult(i)
    \/ \E i \in Ids : WorkerRelease(i)
    \/ \E i \in Ids : Collect(i)
    \/ ReturnBuckets
    \/ Report

\* runs over a project of NumBuckets buckets
Spec == Init /\ [][Next]_vars

\* runs over a project of one bucket, every bucket of at most MaxObjects objects
SpecScan == InitScan /\ [][Next]_vars

(***************************************************************************)
(* Vocabulary of the properties.                                           *)
(***************************************************************************)
\* timestamp t, stripped of its zone, is at or before cutoff c
AtOrBefore(t, c) == ~LexGreater(DtFields(ReplaceTzinfoNone(t)), DtFields(c))

\* the three recency checks of bucket b against cutoff c
Passes(b, c) ==
    /\ AtOrBefore(b.time_created, c)
    /\ b.updated = <<>> \/ AtOrBefore(b.updated[1], c)
    /\ \A k \in 1..Len(b.blobs) : AtOrBefore(b.blobs[k], c)

ResultNames == {unmodified_buckets[k].name : k \in 1..Len(unmodified_buckets)}

Listed == {buckets[k] : k \in 1..Len(buckets)}

\* get_unmodified_buckets has returned
ScanReturned == pc \in {"report", "done"} /\ list_calls = 1

\* the run is over and its scan was not abandoned
ScanCompleted == pc = "done" /\ list_calls = 1 /\ ~list_fault

ScanErrorLogged(i) == Log("ERROR", "Error processing bucket", gcs[i].name) \in log

NoScanActivity ==
    /\ list_calls = 0
    /\ submitted = 0
    /\ \A i \in Ids : fut[i] = "none" /\ calls[i] = <<>>
    /\ write_calls = 0
    /\ file = <<>>

CredentialsFailed == StrptimeMatches(args.cutoff_date) /\ adc_file # "valid"

(***************************************************************************)
(* C1                                                                      *)
(***************************************************************************)
\* C1 as stated: once get_unmodified_buckets has returned, every listed bucket
\* has a result if and only if its creation time, its metadata-update time (if
\* any) and all its objects' times are at or before the cutoff.
C1_ResultIffUnmodified ==
    ScanReturned =>
        \A i \in Listed : (gcs[i].name \in ResultNames) <=> Passes(gcs[i], cutoff_date[1])

\* C1, amended: once get_unmodified_buckets has returned, every listed bucket
\* whose scan raised no error has a result if and only if its creation time,
\* its metadata-update time (if any) and all its objects' times are at or
\* before the cutoff; a time equal to the cutoff does not exclude the bucket.
C1_ResultIffUnmodifiedWhenScanned ==
    ScanReturned =>
        \A i \in Listed \ scan_exc :
            (gcs[i].name \in ResultNames) <=> Passes(gcs[i], cutoff_date[1])

\* a bucket created, updated and written exactly at the cutoff is in the result
C1_Witness ==
    /\ ScanReturned
    /\ \E i \in Listed :
         /\ DtFields(gcs[i].time_created) = DtFields(cutoff_date[1])
         /\ gcs[i].updated = <<gcs[i].time_created>>
         /\ gcs[i].blobs # <<>>
         /\ \A k \in 1..Len(gcs[i].blobs) : gcs[i].blobs[k] = gcs[i].time_created
         /\ gcs[i].name \in ResultNames

(***************************************************************************)
(* C2                                                                      *)
(***************************************************************************)
\* C2: a bucket whose scan fails in get_bucket or in the object listing gets
\* no result and a logged diagnostic, nothing is raised into the coordinator,
\* every other bucket's scan returns what its data says, and the final result
\* is exactly the buckets that did not fail and pass the three checks.
C2_FailureIsolation ==
    /\ \A i \in scan_exc : fut[i] \in {"except", "finished"} /\ ret[i] = <<>> /\ ScanErrorLogged(i)
    /\ \A i \in Ids : (fut[i] = "finished" /\ gcs[i].fault.op = "get_bucket") => i \in scan_exc
    /\ pc \in {"submit", "adjust", "spawn", "add_thread", "as_completed", "report"} => exc = None
    /\ \A i \in Ids \ scan_exc :
         fut[i] = "finished" => ((ret[i] # <<>>) <=> Passes(gcs[i], cutoff_date[1]))
    /\ (ScanReturned /\ ~list_fault) =>
         ResultNames = {gcs[i].name : i \in {j \in Ids \ scan_exc : Passes(gcs[j], cutoff_date[1])}}

\* a run is over in which one bucket's scan failed and another bucket is in the result
C2_Witness ==
    /\ pc = "done"
    /\ scan_exc # {}
    /\ \E i \in scan_exc : ScanErrorLogged(i)
    /\ ResultNames # {}

(***************************************************************************)
(* C3                                                                      *)
(***************************************************************************)
\* the result the inputs alone determine
ExpectedNames ==
    {gcs[i].name : i \in {j \in Ids : /\ gcs[j].fault = NoFault
                                      /\ Passes(gcs[j], Strptime(args.cutoff_date))}}

\* C3: the result list never holds a bucket twice nor a bucket the inputs do
\* not call for, and once get_unmodified_buckets has returned it holds exactly
\* the buckets the inputs determine, whatever the worker count and the order
\* in which the scans ran and completed.
C3_ResultDeterminedByInputs ==
    /\ \A k, l \in 1..Len(unmodified_buckets) :
         unmodified_buckets[k].name = unmodified_buckets[l].name => k = l
    /\ unmodified_buckets # <<>> => ResultNames \subseteq ExpectedNames
    /\ (ScanReturned /\ ~list_fault) =>
         /\ ResultNames = ExpectedNames
         /\ Len(unmodified_buckets) = Cardinality(ExpectedNames)

\* every bucket is in the result and the last one listed was collected first
C3_Witness ==
    /\ pc = "done"
    /\ Len(unmodified_buckets) = Len(gcs)
    /\ Len(gcs) >= 1
    /\ unmodified_buckets[1].name = gcs[Len(gcs)].name
    /\ args.max_workers = MaxWorkers

(***************************************************************************)
(* C4                                                                      *)
(***************************************************************************)
\* C4: when the bucket listing fails, no scan is ever submitted or run, the
\* failure is logged, the result is empty, nothing propagates in main, and
\* the run ends normally without a report.
C4_ListingFailure ==
    (list_fault /\ list_calls >= 1) =>
        /\ pc \in {"report", "done"}
        /\ submitted = 0
        /\ \A i \in Ids : fut[i] = "none" /\ calls[i] = <<>>
        /\ unmodified_buckets = <<>>
        /\ Log("ERROR", "Error in get_unmodified_buckets", "") \in log
        /\ exc = None
        /\ pc = "done" =>
             /\ exit_status = "success"
             /\ write_calls = 0
             /\ Log("INFO", "No unmodified buckets found", "") \in log

\* a run whose listing failed is over
C4_Witness == pc = "done" /\ list_fault /\ list_calls = 1 /\ exit_status = "success"

(***************************************************************************)
(* C5                                                                      *)
(***************************************************************************)
\* C5: with a malformed cutoff date there is never a listing, a scan or a
\* report, get_storage_client is not called and the environment variable stays
\* unset; with failing credentials there is never a listing, a scan or a report.
C5_FatalBeforeScanning ==
    /\ ~StrptimeMatches(args.cutoff_date) =>
         /\ NoScanActivity
         /\ environ = {}
         /\ ~client
         /\ pc \in {"strptime", "done"}
    /\ CredentialsFailed =>
         /\ NoScanActivity
         /\ ~client

\* a run with a malformed cutoff date is over
C5_Witness ==
    /\ pc = "done"
    /\ ~StrptimeMatches(args.cutoff_date)
    /\ Log("ERROR", "Invalid date format. Please use YYYY-MM-DD.", "") \in log

(***************************************************************************)
(* C6                                                                      *)
(***************************************************************************)
\* C6 as stated: when the credentials fail, the error leaves main uncaught and
\* the run ends with the uncaught-failure outcome.
C6_CredentialFailureUncaught ==
    (CredentialsFailed /\ pc = "done") => exit_status = "uncaught"

\* C6, amended: when the credentials fail, the error raised by
\* get_storage_client propagates into main, where the except clause catches
\* and logs it; main returns and the run ends with the success outcome.
C6_CredentialFailureCaughtInMain ==
    CredentialsFailed =>
        /\ pc \in {"strptime", "get_storage_client", "main_except", "done"}
        /\ pc = "main_except" => exc = CredentialError(adc_file)
        /\ pc = "done" =>
             /\ exc = None
             /\ exit_status = "success"
             /\ Log("ERROR", "An error occurred", CredentialError(adc_file)) \in log

\* a run whose credential file is missing is over, both errors logged
C6_Witness ==
    /\ pc = "done"
    /\ CredentialsFailed
    /\ adc_file = "missing"
    /\ Log("ERROR", "Unable to find local credentials", "") \in log
    /\ Log("ERROR", "An error occurred", "FileNotFoundError") \in log

(***************************************************************************)
(* C7                                                                      *)
(***************************************************************************)
\* C7 as stated: every run that completes its scan with N results, N = 0
\* included, leaves a report of N + 1 rows.
C7_ReportAlwaysWritten ==
    ScanCompleted =>
        /\ file # <<>>
        /\ Len(file[1].rows) = Len(unmodified_buckets) + 1

\* C7, amended: a run that completes its scan with N >= 1 results calls the
\* report writer once and, unless saving fails (which is logged and leaves no
\* file), leaves a report of exactly N + 1 rows, the header and one row per
\* result in list order; a run with N = 0 results writes no report.
C7_ReportWrittenWhenNonEmpty ==
    ScanCompleted =>
        IF unmodified_buckets = <<>>
        THEN write_calls = 0 /\ file = <<>>
        ELSE /\ write_calls = 1
             /\ IF Log("ERROR", "Error writing to Excel", "") \in log
                THEN file = <<>>
                ELSE /\ file # <<>>
                     /\ Len(file[1].rows) = Len(unmodified_buckets) + 1
                     /\ file[1].rows[1] = Headers
                     /\ \A k \in 1..Len(unmodified_buckets) :
                          file[1].rows[k + 1][1] = unmodified_buckets[k].name

\* a report of a header and two result rows has been written
C7_Witness ==
    /\ ScanCompleted
    /\ Len(unmodified_buckets) = 2
    /\ file # <<>>
    /\ Len(file[1].rows) = 3

(***************************************************************************)
(* C8                                                                      *)
(***************************************************************************)
\* the k-th provider request of one scan
ExpectedCall(k) == IF k = 1 THEN "get_bucket" ELSE IF k = 2 THEN "list_blobs" ELSE "blob"

\* C8: within one scan the steps happen in the order get_bucket, creation
\* check, metadata-update check, list_blobs, then the objects one by one, each
\* examined before the next is requested; list_blobs is requested only for a
\* bucket whose creation and metadata-update times are at or before the cutoff,
\* and a scan that finishes without requesting it was excluded by one of the
\* two checks or failed in get_bucket; every object examined before the last
\* yielded one is at or before the cutoff, so nothing is requested after an
\* object that is after the cutoff; and a listing error is only raised (and
\* logged) if no earlier object was after the cutoff.
C8_OrderAndShortCircuit ==
    \A i \in Ids :
        LET b == gcs[i]
            c == cutoff_date[1]
        IN  /\ line[i] # 0 => fut[i] \in {"running", "iterating", "except"}
            /\ line[i] = 40 => calls[i] = <<>>
            /\ line[i] \in {42, 43, 45, 46, 49} => calls[i] = <<"get_bucket">>
            /\ line[i] \in {45, 46, 49} => AtOrBefore(b.time_created, c)
            /\ line[i] = 43 => ~AtOrBefore(b.time_created, c)
            /\ line[i] = 46 => (b.updated # <<>> /\ ~AtOrBefore(b.updated[1], c))
            /\ line[i] \in {50, 51, 52, 54} => Len(calls[i]) >= 2
            /\ line[i] \in {51, 52} => it[i] >= 1
            /\ line[i] \in {50, 52, 54} => \A k \in 1..it[i] :
                 (AtOrBefore(b.blobs[k], c) <=> (k < it[i] \/ line[i] # 52))
            /\ line[i] = 54 => it[i] = Len(b.blobs)
            /\ calls[i] # <<>> =>
                 /\ \A k \in 1..Len(calls[i]) : calls[i][k] = ExpectedCall(k)
                 /\ Len(calls[i]) >= 2 =>
                      /\ AtOrBefore(b.time_created, c)
                      /\ b.updated = <<>> \/ AtOrBefore(b.updated[1], c)
                      /\ Len(calls[i]) = 2 + it[i]
                 /\ Len(calls[i]) = 1 =>
                      /\ it[i] = 0
                      /\ fut[i] = "finished" =>
                           \/ b.fault.op = "get_bucket"
                           \/ ~AtOrBefore(b.time_created, c)
                           \/ b.updated # <<>> /\ ~AtOrBefore(b.updated[1], c)
                 /\ \A k \in 1..(it[i] - 1) : AtOrBefore(b.blobs[k], c)
                 /\ (fut[i] = "finished" /\ it[i] >= 1 /\ ~AtOrBefore(b.blobs[it[i]], c)) =>
                      (ret[i] = <<>> /\ i \notin scan_exc)
                 /\ (i \in scan_exc /\ b.fault.op = "list_blobs") =>
                      /\ it[i] = b.fault.at
                      /\ \A k \in 1..b.fault.at : AtOrBefore(b.blobs[k], c)

\* a scan ended at its first object, which is after the cutoff, leaving the
\* second object unexamined and the listing error behind it unraised
C8_Witness ==
    \E i \in Ids :
        /\ fut[i] = "finished"
        /\ Len(gcs[i].blobs) = 2
        /\ ~AtOrBefore(gcs[i].blobs[1], cutoff_date[1])
        /\ gcs[i].fault = [op |-> "list_blobs", at |-> 1]
        /\ it[i] = 1
        /\ i \notin scan_exc
        /\ log \cap {Log("ERROR", "Error processing bucket", gcs[i].name)} = {}

(***************************************************************************)
(* C9                                                                      *)
(***************************************************************************)
\* C9: a scan exists only once the whole bucket list is materialized; the
\* scans submitted are those of the first `submitted` listed buckets, each
\* queued at most once, and all listed buckets once the collection loop runs;
\* from the return of get_unmodified_buckets on, hence when the report is
\* written, every scan has finished, made one get_bucket request and been
\* collected.
C9_PhaseOrdering ==
    /\ (\E i \in Ids : fut[i] # "none") =>
         /\ list_calls = 1
         /\ Len(buckets) = Len(gcs)
         /\ pc \in {"submit", "adjust", "spawn", "add_thread", "as_completed", "report", "done"}
    /\ {i \in Ids : fut[i] # "none"} = {buckets[k] : k \in 1..submitted}
    /\ \A i \in Ids :
         Cardinality({k \in 1..Len(queue) : queue[k] = i}) =
             IF fut[i] = "pending" /\ i \notin taken THEN 1 ELSE 0
    /\ (pc \in {"as_completed", "report", "done"} /\ list_calls = 1) =>
         submitted = Len(buckets)
    /\ (pc \in {"report", "done"} \/ write_calls > 0) =>
         /\ queue = <<>>
         /\ Busy = {}
         /\ \A i \in Listed :
              /\ fut[i] = "finished"
              /\ i \in collected
              /\ Cardinality({k \in 1..Len(calls[i]) : calls[i][k] = "get_bucket"}) = 1
    /\ write_calls > 0 => pc = "done"

\* the report has been written after every bucket's scan was collected
C9_Witness ==
    /\ pc = "done"
    /\ write_calls = 1
    /\ collected = Ids
    /\ Ids # {}

(***************************************************************************)
(* C10                                                                     *)
(***************************************************************************)
\* C10: never more than max_workers scans are running, and never more than
\* max_workers worker threads have been started or are held by the executor.
C10_BoundedConcurrency ==
    /\ Cardinality(Running) <= args.max_workers
    /\ started <= args.max_workers
    /\ threads <= args.max_workers

\* max_workers scans are running while a further bucket waits in the queue
C10_Witness ==
    /\ queue # <<>>
    /\ Cardinality(Running) = args.max_workers
    /\ \E i \in Ids : fut[i] = "pending"

TypeOK ==
    /\ pc \in {"strptime", "get_storage_client", "main_except", "list_buckets", "submit",
               "adjust", "spawn", "add_thread", "as_completed", "report", "done"}
    /\ taken \subseteq {i \in Ids : fut[i] = "pending"}
    /\ started \in {threads, threads + 1}
    /\ fut \in [Ids -> {"none", "pending", "running", "iterating", "except", "finished"}]
    /\ releasing \subseteq {i \in Ids : fut[i] = "finished"}
    /\ line \in [Ids -> {0, 40, 42, 43, 45, 46, 49, 50, 51, 52, 54, 62, 63}]
    /\ \A i \in Ids : fut[i] \in {"none", "pending", "finished"} => line[i] = 0
    /\ exit_status \in {"running", "success", "uncaught"}
====
